---- MODULE Spec2Model ----
(***************************************************************************)
(* A model of poll.py: the availability poller that normalises a fetched   *)
(* payload (tabularise), loads the previous snapshot (load_prev_rows),     *)
(* computes the changed row keys (key_of, diff_tables), notifies           *)
(* (send_email) and saves the snapshot (save_rows).                        *)
(*                                                                         *)
(* Strings are sequences of characters, so that concatenation (key_of),    *)
(* lexicographic order (sorted) and format checks (to_datetime) are        *)
(* computed rather than assumed.  A cell of a DataFrame is a record        *)
(* [t, s, n]: its Python type, its text and its number.                    *)
(***************************************************************************)
EXTENDS Integers, Sequences, FiniteSets, TLC

VARIABLES pc, payload, curr, prev, changed, sent, fs, fs0, keys, run, race

vars == <<pc, payload, curr, prev, changed, sent, fs, fs0, keys, run, race>>

(* ------------------------------ bounds -------------------------------- *)

\* longest payload (number of fetched activity records) of a run
MaxEntries == 2
\* longest payload of the earlier run whose snapshot is on disk at start
MaxPrev == 1
\* longest DataFrame handed to diff_tables when it is called on its own
MaxRows == 2

(* ------------------------------ cells --------------------------------- *)

Val(t, s, n) == [t |-> t, s |-> s, n |-> n]

\* Python None; also stands for the np.nan singleton of an object column:
\* both are equal to themselves by identity when two row dicts are compared.
None == Val("None", <<>>, 0)
\* a NaN of a float64 column: DataFrame.values boxes it into a new float
\* object at every extraction
NaN == Val("NaN", <<>>, 0)
\* pd.NaT, a singleton
NaT == Val("NaT", <<>>, 0)
Str(s) == Val("str", s, 0)
Num(n) == Val("int", <<>>, n)
\* datetime.date; s is its str(), the ISO form
DateV(s) == Val("date", s, 0)
\* datetime.time; s is its str(), HH:MM:SS
TimeV(s) == Val("time", s, 0)
\* pd.Timestamp; n is microseconds since the epoch
Ts(n) == Val("ts", <<>>, n)

\* pd.notna / pd.isna
notna(v) == v.t \notin {"None", "NaN", "NaT"}

\* str(x) of a string, a date or a time
str(v) == v.s

\* the == of two cells as the comparison of two row dicts sees it
\* (identity first, then __eq__): nan != nan for two float objects
PyEq(a, b) == IF a.t = "NaN" /\ b.t = "NaN" THEN FALSE ELSE a = b

Columns == {"Time", "Date", "Spaces", "Venue", "Venue_Size", "Age", "Scraped_At", "URL"}

Row(time, date, spaces, venue, size, age, scraped, url) ==
    [Time |-> time, Date |-> date, Spaces |-> spaces, Venue |-> venue,
     Venue_Size |-> size, Age |-> age, Scraped_At |-> scraped, URL |-> url]

(* ------------------------------ strings ------------------------------- *)

\* the characters that occur in keys, in code point order
Alphabet == <<"-", "0", "1", "2", "3", "4", "5", "6", "7", "8", "9", ":",
              "A", "B", "a", "b", "c", "d", "m", "|">>

Digits == {"0", "1", "2", "3", "4", "5", "6", "7", "8", "9"}

Ord(c) == CHOOSE i \in 1..Len(Alphabet) : Alphabet[i] = c

RECURSIVE StrLess(_, _)
\* a < b for two Python strings
StrLess(a, b) ==
    IF b = <<>> THEN FALSE
    ELSE IF a = <<>> THEN TRUE
    ELSE IF Head(a) = Head(b) THEN StrLess(Tail(a), Tail(b))
    ELSE Ord(Head(a)) < Ord(Head(b))

RECURSIVE sorted(_)
\* sorted(S) of a set of strings
sorted(S) ==
    IF S = {} THEN <<>>
    ELSE LET m == CHOOSE x \in S : \A y \in S \ {x} : StrLess(x, y)
         IN  <<m>> \o sorted(S \ {m})

SeqSet(q) == {q[i] : i \in DOMAIN q}

(* ------------------------------ key_of -------------------------------- *)

key_of(row) ==
    LET time_str == IF notna(row.Time) THEN str(row.Time) ELSE <<>>
        date_str == IF notna(row.Date) THEN str(row.Date) ELSE <<>>
        venue_str == IF notna(row.Venue) THEN str(row.Venue) ELSE <<>>
    IN  date_str \o <<"|">> \o time_str \o <<"|">> \o venue_str

(* ---------------------------- diff_tables ----------------------------- *)

\* {key_of(row): row.to_dict() for _, row in df.iterrows()}: the last row wins
RowMap(df) ==
    [k \in {key_of(df[i]) : i \in DOMAIN df} |->
        df[CHOOSE i \in DOMAIN df :
              /\ key_of(df[i]) = k
              /\ \A j \in DOMAIN df : key_of(df[j]) = k => j <= i]]

\* a != b of two row dicts
DictNe(a, b) == \E c \in Columns : ~PyEq(a[c], b[c])

\* df.apply(key_of, axis=1).tolist()
KeyList(df) == [i \in DOMAIN df |-> key_of(df[i])]

diff_tables(cur, prv) ==
    IF prv = <<>> THEN (IF cur # <<>> THEN KeyList(cur) ELSE <<>>)
    ELSE IF cur = <<>> THEN KeyList(prv)
    ELSE LET prev_map == RowMap(prv)
             curr_map == RowMap(cur)
             all_keys == DOMAIN prev_map \cup DOMAIN curr_map
             isChanged(k) ==
                 \/ k \notin DOMAIN prev_map
                 \/ k \notin DOMAIN curr_map
                 \/ DictNe(prev_map[k], curr_map[k])
         IN  SelectSeq(sorted(all_keys), isChanged)

(* -------------------- diff_tables called on its own ------------------- *)

D1 == <<"2", "0", "2", "5", "-", "0", "6", "-", "0", "1">>
T7 == <<"7", ":", "0", "0", "a", "m">>
T8 == <<"8", ":", "0", "0", "a", "m">>
VenueA == <<"A">>
ScrapedT == Ts(7000000)
UrlA == <<"https://bookings.better.org.uk/location/a">>

DiffRows ==
    { Row(Str(t), d, sp, Str(VenueA), None, None, ScrapedT, Str(UrlA)) :
        t \in {T7, T8}, d \in {DateV(D1), NaT}, sp \in {Num(3), Num(2), NaN} }

Frames(rows, n) == UNION {[1..k -> rows] : k \in 0..n}

InitDiff ==
    /\ run = 1 /\ race = <<>>
    /\ pc = "t_diff"
    /\ curr \in Frames(DiffRows, MaxRows)
    /\ prev \in Frames(DiffRows, MaxRows)
    /\ changed = <<>>
    /\ payload = <<>> /\ sent = <<>> /\ keys = <<>>
    /\ fs = <<>> /\ fs0 = <<>>

DiffCall ==
    /\ pc = "t_diff"
    /\ changed' = diff_tables(curr, prev)
    /\ pc' = "t_diff_done"
    /\ UNCHANGED <<payload, curr, prev, sent, fs, fs0, keys, run, race>>

NextDiff == DiffCall

SpecDiff == InitDiff /\ [][NextDiff]_vars

(* ------------------------------ payload ------------------------------- *)

\* a key the record does not have
Missing == Val("missing", <<>>, 0)

BadDate == <<"b", "a", "d">>
H24_7 == <<"0", "7", ":", "0", "0">>
H24_8 == <<"0", "8", ":", "0", "0">>
VenueId == <<"islington-tennis-centre">>
CourtId == <<"tennis-court-indoor">>

StartsAt(h12, h24) == [isdict |-> TRUE, h12 |-> Str(h12), h24 |-> Str(h24)]
NoStartsAt == [isdict |-> FALSE, h12 |-> Missing, h24 |-> Missing]

\* one record of the API's "data" array, with the venue and court that
\* fetch_all_activities adds
Activity(date, starts_at, spaces, location) ==
    [date |-> date, starts_at |-> starts_at, spaces |-> spaces,
     location |-> location, timestamp |-> Num(7),
     venue |-> Str(VenueId), court |-> Str(CourtId)]

Activities ==
    { Activity(Str(D1), StartsAt(T7, H24_7), Num(3), Str(VenueA)),
      Activity(Str(D1), StartsAt(T7, H24_7), Num(2), Str(VenueA)),
      Activity(Str(D1), StartsAt(T8, H24_8), Num(3), Str(VenueA)),
      Activity(Str(D1), StartsAt(T7, H24_7), Missing, Str(VenueA)),
      Activity(Str(BadDate), StartsAt(T7, H24_7), Num(3), Str(VenueA)),
      Activity(Missing, StartsAt(T7, H24_7), Num(3), Str(VenueA)),
      Activity(Str(D1), NoStartsAt, Num(3), Str(VenueA)) }

Payloads(n) == Frames(Activities, n)

(* ----------------------------- tabularise ----------------------------- *)

\* isinstance(x, dict) of a starts_at cell: a record without the key holds
\* NaN there, and a frame without the column has no first cell that is a dict
isinstance_dict(x) == x.isdict

\* "c" in df.columns: pd.DataFrame(all_records) has a column for every key
\* some record has
HasColumn(df, c) == \E i \in DOMAIN df : df[i][c] # Missing

\* YYYY-MM-DD
IsIsoDate(s) ==
    /\ Len(s) = 10
    /\ \A i \in {1, 2, 3, 4, 6, 7, 9, 10} : s[i] \in Digits
    /\ s[5] = "-" /\ s[8] = "-"

\* pd.to_datetime(x, errors="coerce").dt.date of one cell
ParseDate(v) == IF v.t = "str" /\ IsIsoDate(v.s) THEN DateV(v.s) ELSE NaT

\* pd.to_datetime(x, unit="s", errors="coerce") of one cell
ParseEpoch(v) == IF v.t = "int" THEN Ts(v.n * 1000000) ELSE NaT

\* construct_url(row)
construct_url(venue, court, date, starts_at_24h) ==
    IF ~notna(venue) \/ ~notna(court) \/ ~notna(date) \/ ~notna(starts_at_24h)
    THEN None
    ELSE Str(<<"https://bookings.better.org.uk/location/">> \o venue.s \o <<"/">>
             \o court.s \o <<"/">> \o date.s \o <<"/by-time/slot/">>
             \o starts_at_24h.s)

\* a cell of a column of pd.DataFrame(all_records): a key the record lacks is
\* NaN in a numeric column and the np.nan singleton in an object column
Cell(v, numeric) == IF v = Missing THEN (IF numeric THEN NaN ELSE None) ELSE v

tabularise(df) ==
    IF df = <<>> THEN <<>>
    ELSE
    LET \* the nested fields are flattened only if the first record has them
        flatten == isinstance_dict(df[1].starts_at)
        starts_at_12h(i) ==
            IF ~flatten THEN None
            ELSE IF isinstance_dict(df[i].starts_at) THEN Cell(df[i].starts_at.h12, FALSE)
            ELSE None
        starts_at_24h(i) ==
            IF ~flatten THEN None
            ELSE IF isinstance_dict(df[i].starts_at) THEN Cell(df[i].starts_at.h24, FALSE)
            ELSE None
        timestamp_dt(i) ==
            IF HasColumn(df, "timestamp") THEN ParseEpoch(df[i].timestamp) ELSE None
        Date(i) == IF HasColumn(df, "date") THEN ParseDate(df[i].date) ELSE None
        spaces(i) == IF HasColumn(df, "spaces") THEN Cell(df[i].spaces, TRUE) ELSE None
        location(i) == IF HasColumn(df, "location") THEN Cell(df[i].location, FALSE) ELSE None
    IN  [i \in DOMAIN df |->
            Row(starts_at_12h(i), Date(i), spaces(i), location(i), None, None,
                timestamp_dt(i),
                construct_url(df[i].venue, df[i].court, Date(i), starts_at_24h(i)))]

(* --------------------------- snapshot file ---------------------------- *)

CACHE_STATE_PATH == <<"cache/state.json">>

\* the rows written straight onto the snapshot path
TmpSame(path) == path

\* tmp = path + ".tmp"
TmpPath(path) == path \o <<".tmp">>

FileNames == {CACHE_STATE_PATH, TmpPath(CACHE_STATE_PATH)}

\* what a file holds: no file, bytes that are no JSON, the first rows of an
\* array whose writing was cut short, or a complete JSON array of row objects
Absent == [kind |-> "absent", rows |-> <<>>]
Garbage == [kind |-> "garbage", rows |-> <<>>]
Partial(rows) == [kind |-> "partial", rows |-> rows]
Json(rows) == [kind |-> "json", rows |-> rows]

JNull == Val("null", <<>>, 0)
JNum(n) == Val("num", <<>>, n)
JStr(s) == Val("jstr", s, 0)
\* an ISO timestamp string with milliseconds; n is the milliseconds
JIso(n) == Val("jiso", <<>>, n)

\* one cell as df.to_json(orient="records", date_format="iso") writes it
ToJsonCell(v) ==
    IF ~notna(v) THEN JNull
    ELSE IF v.t = "int" THEN JNum(v.n)
    ELSE IF v.t = "ts" THEN JIso(v.n \div 1000)
    ELSE JStr(v.s)

ToJsonRows(df) == [i \in DOMAIN df |-> [c \in Columns |-> ToJsonCell(df[i][c])]]

to_json(df) == Json(ToJsonRows(df))

\* HH:MM:SS
IsHMS(s) ==
    /\ Len(s) = 8
    /\ \A i \in {1, 2, 4, 5, 7, 8} : s[i] \in Digits
    /\ s[3] = ":" /\ s[6] = ":"

\* pd.to_datetime(x, format="%H:%M:%S", errors="coerce").dt.time of one cell
ParseTime(j) == IF j.t = "jstr" /\ IsHMS(j.s) THEN TimeV(j.s) ELSE NaT

\* pd.to_datetime(x, errors="coerce").dt.date of one cell
ParseDateCell(j) == IF j.t = "jstr" /\ IsIsoDate(j.s) THEN DateV(j.s) ELSE NaT

\* pd.to_datetime(x, errors="coerce") of one cell
ParseTimestamp(j) == IF j.t = "jiso" THEN Ts(j.n * 1000) ELSE NaT

\* pd.read_json's cell of a column the loader does not convert: a column
\* with no string in it becomes float64, and its nulls NaN
ReadCell(j, numeric) ==
    IF j.t = "null" THEN (IF numeric THEN NaN ELSE None)
    ELSE IF j.t = "num" THEN Num(j.n)
    ELSE Str(j.s)

ParsedRows(rows) ==
    LET numeric(c) == \A i \in DOMAIN rows : rows[i][c].t \in {"null", "num"}
        cell(i, c) ==
            IF c = "Time" THEN ParseTime(rows[i][c])
            ELSE IF c = "Date" THEN ParseDateCell(rows[i][c])
            ELSE IF c = "Scraped_At" THEN ParseTimestamp(rows[i][c])
            ELSE ReadCell(rows[i][c], numeric(c))
    IN  [i \in DOMAIN rows |-> [c \in Columns |-> cell(i, c)]]

\* pd.read_json raises on anything but a complete JSON document
ReadRaises(file) == file.kind \in {"garbage", "partial"}

\* load_prev_rows on a file that is absent or can be read
load_prev_rows(file) ==
    IF file.kind = "absent" THEN <<>> ELSE ParsedRows(file.rows)

\* a snapshot written when Time was a datetime.time, "07:00:00"
LegacyRows ==
    <<[c \in Columns |->
        IF c = "Time" THEN JStr(<<"0", "7", ":", "0", "0", ":", "0", "0">>)
        ELSE IF c = "Date" THEN JStr(D1)
        ELSE IF c = "Spaces" THEN JNum(3)
        ELSE IF c = "Venue" THEN JStr(VenueA)
        ELSE IF c = "Scraped_At" THEN JIso(7000)
        ELSE JNull]>>

\* what the snapshot path may hold when a run starts
StartFiles ==
    {Absent, Garbage, Json(LegacyRows)}
        \cup {to_json(tabularise(p)) : p \in Payloads(MaxPrev)}

(* -------------------------------- main -------------------------------- *)

DisplayColumns == {"Date", "Time", "Venue", "Spaces", "Venue_Size", "URL"}

\* curr_map = {key_of(row): idx for idx, row in curr_df.iterrows()}
IndexMap(df) ==
    [k \in {key_of(df[i]) : i \in DOMAIN df} |->
        CHOOSE i \in DOMAIN df :
            /\ key_of(df[i]) = k
            /\ \A j \in DOMAIN df : key_of(df[j]) = k => j <= i]

\* changed_df = curr_df.loc[[curr_map[k] for k in changed_keys if k in curr_map]]
ChangedRows(df, changed_keys) ==
    LET curr_map == IndexMap(df)
        known(k) == k \in DOMAIN curr_map
        ks == SelectSeq(changed_keys, known)
    IN  [i \in DOMAIN ks |-> df[curr_map[ks[i]]]]

\* df_display = changed_rows[display_columns]
Display(df) == [i \in DOMAIN df |-> [c \in DisplayColumns |-> df[i][c]]]

\* the previous rows saved back instead of the current ones
SnapshotRowsPrev(cur, prv) == prv

\* the rows main hands to save_rows
SnapshotRows(cur, prv) == cur

\* os.replace(tmp, path)
Replaced(files, tmp, path) ==
    [f \in DOMAIN files |->
        IF f = path THEN files[tmp] ELSE IF f = tmp THEN Absent ELSE files[f]]

Init ==
    /\ run = 1 /\ race = <<>>
    /\ pc = "start"
    /\ fs0 \in StartFiles
    /\ fs = [f \in FileNames |-> IF f = CACHE_STATE_PATH THEN fs0 ELSE Absent]
    /\ payload = <<>> /\ curr = <<>> /\ prev = <<>>
    /\ changed = <<>> /\ sent = <<>> /\ keys = <<>>

\* raw_df = fetch_all_activities(): whatever the API returns
Fetch ==
    /\ pc = "start"
    /\ \E p \in Payloads(MaxEntries) : payload' = p
    /\ pc' = "fetched"
    /\ UNCHANGED <<curr, prev, changed, sent, fs, fs0, keys, run, race>>

\* curr_df = tabularise(raw_df)
Tabularise ==
    /\ pc = "fetched"
    /\ curr' = tabularise(payload)
    /\ pc' = "tabularised"
    /\ UNCHANGED <<payload, prev, changed, sent, fs, fs0, keys, run, race>>

\* prev_df = load_prev_rows(CACHE_STATE_PATH)
Load ==
    /\ pc = "tabularised"
    /\ IF ReadRaises(fs[CACHE_STATE_PATH])
       THEN pc' = "load_failed" /\ prev' = prev
       ELSE pc' = "loaded" /\ prev' = load_prev_rows(fs[CACHE_STATE_PATH])
    /\ UNCHANGED <<payload, curr, changed, sent, fs, fs0, keys, run, race>>

\* changed_keys = diff_tables(curr_df, prev_df)
Diff ==
    /\ pc = "loaded"
    /\ changed' = diff_tables(curr, prev)
    /\ pc' = "diffed"
    /\ UNCHANGED <<payload, curr, prev, sent, fs, fs0, keys, run, race>>

\* if changed_keys: ... send_email(...), which raises when the addresses or
\* the password are not configured or the transport fails
Notify ==
    /\ pc = "diffed"
    /\ LET changed_df == ChangedRows(curr, changed)
       IN  IF changed = <<>> \/ changed_df = <<>>
           THEN pc' = "notified" /\ sent' = sent
           ELSE \E raised \in BOOLEAN :
                   IF raised
                   THEN pc' = "notify_failed" /\ sent' = sent
                   ELSE pc' = "notified" /\ sent' = Display(changed_df)
    /\ UNCHANGED <<payload, curr, prev, changed, fs, fs0, keys, run, race>>

\* save_rows: df.to_json(tmp, ...) opens the temporary file
SaveOpen ==
    /\ pc = "notified"
    /\ fs' = [fs EXCEPT ![TmpPath(CACHE_STATE_PATH)] = Partial(<<>>)]
    /\ pc' = "writing"
    /\ UNCHANGED <<payload, curr, prev, changed, sent, fs0, keys, run, race>>

\* save_rows: df.to_json(tmp, ...) writes the rows and closes the file
SaveWrite ==
    /\ pc = "writing"
    /\ LET tmp == TmpPath(CACHE_STATE_PATH)
           data == ToJsonRows(SnapshotRows(curr, prev))
           n == Len(fs[tmp].rows)
       IN  IF n < Len(data)
           THEN /\ fs' = [fs EXCEPT ![tmp] = Partial(SubSeq(data, 1, n + 1))]
                /\ pc' = pc
           ELSE /\ fs' = [fs EXCEPT ![tmp] = Json(data)]
                /\ pc' = "written"
    /\ UNCHANGED <<payload, curr, prev, changed, sent, fs0, keys, run, race>>

\* save_rows: os.replace(tmp, path)
SaveReplace ==
    /\ pc = "written"
    /\ fs' = Replaced(fs, TmpPath(CACHE_STATE_PATH), CACHE_STATE_PATH)
    /\ pc' = "done"
    /\ UNCHANGED <<payload, curr, prev, changed, sent, fs0, keys, run, race>>

\* the process is interrupted while save_rows runs
Crash ==
    /\ pc \in {"writing", "written"}
    /\ pc' = "crashed"
    /\ UNCHANGED <<payload, curr, prev, changed, sent, fs, fs0, keys, run, race>>

Next ==
    \/ Fetch \/ Tabularise \/ Load \/ Diff \/ Notify
    \/ SaveOpen \/ SaveWrite \/ SaveReplace \/ Crash

Spec == Init /\ [][Next]_vars

(* ---------------------- key_of called on its own ---------------------- *)

KeyRows ==
    { Row(t, d, Num(3), v, None, None, ScrapedT, None) :
        d \in {DateV(D1), NaT},
        t \in {Str(<<"a">>), Str(<<"a", "|", "b">>), Str(<<>>), None},
        v \in {Str(<<"c">>), Str(<<"b", "|", "c">>), Str(<<>>), None} }

\* any two rows
InitKey ==
    /\ run = 1 /\ race = <<>>
    /\ pc = "t_key"
    /\ curr \in [1..2 -> KeyRows]
    /\ prev = <<>> /\ changed = <<>> /\ keys = <<>>
    /\ payload = <<>> /\ sent = <<>>
    /\ fs = <<>> /\ fs0 = <<>>

KeyCall ==
    /\ pc = "t_key"
    /\ keys' = KeyList(curr)
    /\ pc' = "t_key_done"
    /\ UNCHANGED <<payload, curr, prev, changed, sent, fs, fs0, run, race>>

NextKey == KeyCall

SpecKey == InitKey /\ [][NextKey]_vars

(* ------------- save_rows and load_prev_rows called in turn ------------ *)

InitRoundTrip ==
    /\ run = 1 /\ race = <<>>
    /\ pc = "t_norm"
    /\ payload \in Payloads(MaxEntries)
    /\ curr = <<>> /\ prev = <<>> /\ changed = <<>> /\ keys = <<>> /\ sent = <<>>
    /\ fs0 = Absent
    /\ fs = [f \in FileNames |-> Absent]

NormCall ==
    /\ pc = "t_norm"
    /\ curr' = tabularise(payload)
    /\ pc' = "t_save"
    /\ UNCHANGED <<payload, prev, changed, sent, fs, fs0, keys, run, race>>

SaveCall ==
    /\ pc = "t_save"
    /\ LET tmp == TmpPath(CACHE_STATE_PATH)
       IN  fs' = Replaced([fs EXCEPT ![tmp] = to_json(curr)], tmp, CACHE_STATE_PATH)
    /\ pc' = "t_load"
    /\ UNCHANGED <<payload, curr, prev, changed, sent, fs0, keys, run, race>>

LoadCall ==
    /\ pc = "t_load"
    /\ prev' = load_prev_rows(fs[CACHE_STATE_PATH])
    /\ pc' = "t_loaded"
    /\ UNCHANGED <<payload, curr, changed, sent, fs, fs0, keys, run, race>>

NextRoundTrip == NormCall \/ SaveCall \/ LoadCall

SpecRoundTrip == InitRoundTrip /\ [][NextRoundTrip]_vars

(* ------------- tabularise called on a payload of slot entries ---------- *)

\* most day records of one slot entry
MaxDays == 2

\* runs of main in a row on one snapshot path
MaxRuns == 2

\* rows of each of two runs that save at once
MaxRace == 1

Dec30 == <<"2", "0", "2", "5", "-", "1", "2", "-", "3", "0">>
Jan02 == <<"2", "0", "2", "6", "-", "0", "1", "-", "0", "2">>

\* one entry of a day record's "spaces" list; its booking_url embeds date
VenueEntry(date) ==
    [name |-> <<"Test Venue">>, total_spaces |-> 1,
     booking_url |-> <<"https://example.com/">> \o date \o <<"/slot/07:00-08:00">>,
     url_date |-> date]

\* {"day": label, "total_spaces": n, "spaces": [...]}
DayRecord(label, spaces) ==
    [day |-> label, total_spaces |-> Len(spaces), spaces |-> spaces]

DayRecords ==
    { DayRecord(label, spaces) :
        label \in {<<"3", "0", " ", "D", "e", "c">>, <<"0", "2", " ", "J", "a", "n">>},
        spaces \in {<<>>, <<VenueEntry(Dec30)>>, <<VenueEntry(Jan02)>>} }

\* {"rows": [{"hour": .., "fromTime": .., "dayDDMM": {...}, ...}]}: a dict, as
\* the tests hand it to tabularise
SlotPayloads ==
    { [py |-> "dict", fromTime |-> t, days |-> d] :
        t \in {H24_7, H24_8},
        d \in UNION {[1..k -> DayRecords] : k \in 1..MaxDays} }

\* raw_df of main: a DataFrame of activity records
FramePayloads == { [py |-> "DataFrame", frame |-> p] : p \in Payloads(MaxPrev) }

\* df.empty, the first thing tabularise reads of its argument: a DataFrame
\* has the attribute, a dict raises AttributeError
HasEmpty(arg) == arg.py = "DataFrame"

InitSlots ==
    /\ run = 1 /\ race = <<>>
    /\ pc = "t_slots"
    /\ payload \in SlotPayloads \cup FramePayloads
    /\ curr = <<>> /\ prev = <<>> /\ changed = <<>> /\ keys = <<>> /\ sent = <<>>
    /\ fs = <<>> /\ fs0 = <<>>

\* result = tabularise(payload)
SlotsCall ==
    /\ pc = "t_slots"
    /\ IF HasEmpty(payload)
       THEN pc' = "t_slots_returned" /\ curr' = tabularise(payload.frame)
       ELSE pc' = "t_slots_raised" /\ curr' = curr
    /\ UNCHANGED <<payload, prev, changed, sent, fs, fs0, keys, run, race>>

NextSlots == SlotsCall

SpecSlots == InitSlots /\ [][NextSlots]_vars

(* ------------------- main run again on the same path ------------------ *)

\* the second run starts where the first one ended: same snapshot path, a
\* fresh process, and fetch_all_activities() returns the same payload
FetchSame ==
    /\ pc = "done"
    /\ run < MaxRuns
    /\ run' = run + 1
    /\ payload' = payload
    /\ curr' = <<>> /\ prev' = <<>> /\ changed' = <<>> /\ sent' = <<>>
    /\ fs0' = fs[CACHE_STATE_PATH]
    /\ pc' = "fetched"
    /\ UNCHANGED <<fs, keys, race>>

NextRuns == Next \/ FetchSame

SpecRuns == Init /\ [][NextRuns]_vars

(* ---------------- save_rows called by two runs at once ---------------- *)

Procs == {"A", "B"}

\* the rows the two runs have fetched: any frames of these activities
RaceActivities ==
    { Activity(Str(D1), StartsAt(T7, H24_7), Num(3), Str(VenueA)),
      Activity(Str(D1), StartsAt(T8, H24_8), Num(2), Str(VenueA)) }

RaceFrames == { tabularise(p) : p \in Frames(RaceActivities, MaxRace) }

\* a name that is not in the directory, and a descriptor whose file has no
\* name any more or is closed
NoFile == [exists |-> FALSE, blocks |-> <<>>]
File(blocks) == [exists |-> TRUE, blocks |-> blocks]
Unlinked == <<"unlinked">>
Closed == <<"closed">>

\* a file is the blocks written to it: row objects, the end of the array,
\* and the zero bytes of a block that was skipped
Close == [block |-> "]"]
Hole == [block |-> "NUL"]

\* the blocks of a complete array: the row objects, then the closing bracket
Blocks(rows) == rows \o <<Close>>

\* write(fd, block) at the descriptor's own offset i
Put(blocks, i, b) ==
    [k \in 1..(IF i > Len(blocks) THEN i ELSE Len(blocks)) |->
        IF k = i THEN b ELSE IF k <= Len(blocks) THEN blocks[k] ELSE Hole]

\* what a reader finds under a name
Contents(file) ==
    LET IsRows(bs) == \A k \in DOMAIN bs : bs[k] \notin {Close, Hole}
        blocks == file.blocks
        n == Len(blocks)
    IN  IF ~file.exists THEN Absent
        ELSE IF IsRows(blocks) THEN Partial(blocks)
        ELSE IF blocks[n] = Close /\ IsRows(SubSeq(blocks, 1, n - 1))
             THEN Json(SubSeq(blocks, 1, n - 1))
        ELSE Garbage

InitRace ==
    /\ run = 1
    /\ pc = "t_race"
    /\ fs0 \in {Absent, Json(LegacyRows)}
    /\ \E rows \in [Procs -> RaceFrames] :
        race = [dir |-> [f \in FileNames |->
                            IF f = CACHE_STATE_PATH /\ fs0 # Absent
                            THEN File(Blocks(fs0.rows)) ELSE NoFile],
                rows |-> rows,
                pc |-> [p \in Procs |-> "open"],
                fd |-> [p \in Procs |-> Closed],
                n |-> [p \in Procs |-> 0]]
    /\ payload = <<>> /\ curr = <<>> /\ prev = <<>>
    /\ changed = <<>> /\ sent = <<>> /\ keys = <<>> /\ fs = <<>>

\* save_rows of run p: df.to_json(tmp, ...) opens tmp for writing, which
\* creates it or empties the file that has this name
RaceOpen(p) ==
    /\ race.pc[p] = "open"
    /\ race' = [race EXCEPT !.dir[TmpPath(CACHE_STATE_PATH)] = File(<<>>),
                            !.fd[p] = TmpPath(CACHE_STATE_PATH),
                            !.n[p] = 0,
                            !.pc[p] = "write"]
    /\ UNCHANGED <<pc, payload, curr, prev, changed, sent, fs, fs0, keys, run>>

\* save_rows of run p: df.to_json(tmp, ...) writes its next block into the
\* file it has open, under whatever name that file now is, and closes the
\* file after the last block
RaceWrite(p) ==
    /\ race.pc[p] = "write"
    /\ LET data == Blocks(ToJsonRows(race.rows[p]))
           i == race.n[p] + 1
           f == race.fd[p]
           last == i = Len(data)
           dir == IF f = Unlinked THEN race.dir
                  ELSE [race.dir EXCEPT ![f] = File(Put(race.dir[f].blocks, i, data[i]))]
       IN  race' = [race EXCEPT !.dir = dir,
                                !.n[p] = i,
                                !.fd[p] = IF last THEN Closed ELSE f,
                                !.pc[p] = IF last THEN "replace" ELSE "write"]
    /\ UNCHANGED <<pc, payload, curr, prev, changed, sent, fs, fs0, keys, run>>

\* save_rows of run p: os.replace(tmp, path), FileNotFoundError if tmp has
\* been renamed away
RaceReplace(p) ==
    /\ race.pc[p] = "replace"
    /\ LET tmp == TmpPath(CACHE_STATE_PATH)
           path == CACHE_STATE_PATH
           moved(f) == IF f = tmp THEN path ELSE IF f = path THEN Unlinked ELSE f
       IN  IF ~race.dir[tmp].exists
           THEN race' = [race EXCEPT !.pc[p] = "raised"]
           ELSE race' = [race EXCEPT !.dir = [f \in FileNames |->
                                                IF f = path THEN race.dir[tmp] ELSE NoFile],
                                     !.fd = [q \in Procs |-> moved(race.fd[q])],
                                     !.pc[p] = "saved"]
    /\ UNCHANGED <<pc, payload, curr, prev, changed, sent, fs, fs0, keys, run>>

NextRace == \E p \in Procs : RaceOpen(p) \/ RaceWrite(p) \/ RaceReplace(p)

SpecRace == InitRace /\ [][NextRace]_vars

(* ------------------------------- claims ------------------------------- *)

\* two cells hold the same value: both absent, or the same value, a
\* timestamp compared to the millisecond
SameValue(a, b) ==
    IF ~notna(a) \/ ~notna(b) THEN ~notna(a) /\ ~notna(b)
    ELSE IF a.t = "ts" /\ b.t = "ts" THEN a.n \div 1000 = b.n \div 1000
    ELSE a = b

KeySet(df) == {key_of(df[i]) : i \in DOMAIN df}

\* C1: diff_tables(R, R) is empty for every row sequence R, duplicates and
\* absent fields included.
C1_DiffIdempotent ==
    pc = "t_diff_done" /\ curr = prev => changed = <<>>

\* C2: when the identities of the current and of the previous rows are
\* disjoint, diff_tables returns exactly their union, each identity once.
C2_SymmetricDifference ==
    pc = "t_diff_done" /\ KeySet(curr) \cap KeySet(prev) = {} =>
        /\ SeqSet(changed) = KeySet(curr) \cup KeySet(prev)
        /\ Len(changed) = Cardinality(KeySet(curr) \cup KeySet(prev))

\* C3: an identity present on both sides is reported if and only if the
\* last rows seen for it differ in at least one of the eight fields.
C3_UpdatedIffFieldDiffers ==
    pc = "t_diff_done" =>
        \A k \in KeySet(curr) \cap KeySet(prev) :
            k \in SeqSet(changed) <=>
                \E c \in Columns : ~SameValue(RowMap(curr)[k][c], RowMap(prev)[k][c])

\* C4: load_prev_rows after save_rows returns as many rows as were saved,
\* with the same value in every field and so the same identity key.
C4_RoundTrip ==
    pc = "t_loaded" =>
        /\ Len(prev) = Len(curr)
        /\ \A i \in DOMAIN curr :
              /\ \A c \in Columns : SameValue(prev[i][c], curr[i][c])
              /\ key_of(prev[i]) = key_of(curr[i])

\* C5: at every point of a run, a crash inside save_rows included, the
\* snapshot path holds its complete pre-run content or the complete new rows.
C5_AtomicPersistence ==
    \/ fs[CACHE_STATE_PATH] = fs0
    \/ fs[CACHE_STATE_PATH] = to_json(curr)

\* a crash with the temporary file partly written and the snapshot untouched
C5_Witness ==
    /\ pc = "crashed"
    /\ fs[TmpPath(CACHE_STATE_PATH)].kind = "partial"
    /\ Len(fs[TmpPath(CACHE_STATE_PATH)].rows) = 1
    /\ Len(curr) = 2
    /\ fs[CACHE_STATE_PATH] = fs0
    /\ fs0.kind = "json"

\* C6 as stated: every run that computed the change set ends with the
\* snapshot equal to the current rows, whatever the notification step did.
C6_SavedWhateverNotifyDoes ==
    pc \in {"done", "notify_failed"} => fs[CACHE_STATE_PATH] = to_json(curr)

\* C6 amended: a run that returns has saved the current rows, whether or not
\* the change set was empty; a run whose send_email raised has saved nothing
\* and sent nothing.
C6_SavedUnlessNotifyRaises ==
    /\ pc = "done" => fs[CACHE_STATE_PATH] = to_json(curr)
    /\ pc = "notify_failed" => fs[CACHE_STATE_PATH] = fs0 /\ sent = <<>>

\* a run that notified its changes and then replaced a different snapshot
C6_Witness ==
    /\ pc = "done"
    /\ sent # <<>>
    /\ fs0.kind = "json"
    /\ fs[CACHE_STATE_PATH] # fs0

\* a stored field value that the loader cannot parse back
Unparseable(jrow) ==
    \/ jrow["Time"].t = "jstr" /\ ~IsHMS(jrow["Time"].s)
    \/ jrow["Date"].t = "jstr" /\ ~IsIsoDate(jrow["Date"].s)

Corrupt(file) ==
    \/ file.kind \in {"garbage", "partial"}
    \/ file.kind = "json" /\ \E i \in DOMAIN file.rows : Unparseable(file.rows[i])

\* C7: a run that finds a present but corrupt snapshot (no JSON, or a stored
\* value that cannot be parsed back) stops at the load, sends nothing and
\* leaves the file as it was.
C7_CorruptSnapshotIsFatal ==
    Corrupt(fs0) =>
        /\ pc \in {"start", "fetched", "tabularised", "load_failed"}
        /\ sent = <<>>
        /\ fs[CACHE_STATE_PATH] = fs0

\* C8: once the notification step is passed, every changed identity, a
\* removed one included, was handed to the notification.
C8_EveryChangeNotified ==
    pc \in {"notified", "writing", "written", "done", "crashed"} =>
        \A k \in SeqSet(changed) : \E i \in DOMAIN sent : key_of(sent[i]) = k

\* two cells agree: an absent field and an empty string do not
SameField(a, b) == IF notna(a) /\ notna(b) THEN a = b ELSE ~notna(a) /\ ~notna(b)

\* C9: two rows get the same identity only if they agree on Date, on Time
\* and on Venue.
C9_KeyCollisionFree ==
    pc = "t_key_done" /\ keys[1] = keys[2] =>
        /\ SameField(curr[1].Date, curr[2].Date)
        /\ SameField(curr[1].Time, curr[2].Time)
        /\ SameField(curr[1].Venue, curr[2].Venue)

\* C10: every current row that reaches diff_tables has a Date and a Time.
C10_IdentityFieldsPresent ==
    pc \in {"loaded", "diffed"} =>
        \A i \in DOMAIN curr : notna(curr[i].Date) /\ notna(curr[i].Time)

\* the venue entries of a payload of slot entries, day record by day record
RECURSIVE VenueEntries(_)
VenueEntries(days) ==
    IF days = <<>> THEN <<>> ELSE Head(days).spaces \o VenueEntries(Tail(days))

\* C11: tabularise of a payload of slot entries returns one row per venue
\* entry, and the row's Date is the date embedded in the entry's booking URL
\* ("30 Dec" and "02 Jan" give 2025-12-30 and 2026-01-02).
C11_YearFromBookingUrl ==
    pc \in {"t_slots_returned", "t_slots_raised"} /\ payload.py = "dict" =>
        LET entries == VenueEntries(payload.days)
        IN  /\ pc = "t_slots_returned"
            /\ Len(curr) = Len(entries)
            /\ \A i \in DOMAIN entries : curr[i].Date = DateV(entries[i].url_date)

\* C12: tabularise of a payload whose only day record has an empty list of
\* venue entries returns, with no row.
C12_EmptySpacesGiveNoRow ==
    /\ pc \in {"t_slots_returned", "t_slots_raised"}
    /\ payload.py = "dict"
    /\ Len(payload.days) = 1
    /\ payload.days[1].spaces = <<>>
    => pc = "t_slots_returned" /\ curr = <<>>

\* C13: when a complete run is followed by a complete run that fetches the
\* same payload, the second run finds no changed key, sends nothing, and
\* leaves the snapshot it loaded.
C13_StableAcrossRuns ==
    run >= 2 /\ pc = "done" =>
        /\ changed = <<>>
        /\ sent = <<>>
        /\ fs[CACHE_STATE_PATH] = fs0

\* C14: when two runs execute save_rows at once on one snapshot path, in
\* every interleaving neither save raises, and the snapshot path holds at
\* every point the complete rows of one of the two runs or what it held
\* before, never a mixture or a partial file.
C14_LastWriterWins ==
    pc = "t_race" =>
        /\ \A p \in Procs : race.pc[p] # "raised"
        /\ Contents(race.dir[CACHE_STATE_PATH])
              \in {fs0} \cup {to_json(race.rows[p]) : p \in Procs}

====
